---- MODULE Spec2Model ----
(***************************************************************************)
(* Model of the ChatBotApp memory / retrieval pipeline.                    *)
(*                                                                         *)
(* A text (an LLM output, a fact, a search query) is a sequence of tokens; *)
(* a token is a string standing for an indivisible run of characters       *)
(* (a word, a complete fact line, a blank, a newline).  str.strip and      *)
(* str.split act on these sequences the way Python acts on characters.     *)
(*                                                                         *)
(* The vector index (Chroma) is a sequence of documents in insertion       *)
(* order; a document's position stands for its id.  Distances are in       *)
(* hundredths (0.1 is 10).                                                 *)
(*                                                                         *)
(* A handler runs to its end or to the external call that raises: an       *)
(* uncaught exception ends the Streamlit script run and leaves in          *)
(* st.session_state, the db and the index what was written before it.      *)
(*                                                                         *)
(* Spec is the whole application over small input sets; SpecChat,         *)
(* SpecMemory and SpecLong run the turn pipeline and the memory actions    *)
(* over their full input sets; SpecSaved is the whole application from     *)
(* saved conversations on, SpecConv the conversations alone, and           *)
(* SpecSessions the curation runs of two sessions side by side.            *)
(***************************************************************************)
EXTENDS Integers, Sequences, FiniteSets, TLC

VARIABLES
    index,            \* vector_store: documents [page_content, user_id]
    db,               \* Firestore conversations: [owner, title, messages]
    session_keys,     \* keys present in st.session_state
    logged_in,        \* st.session_state.logged_in
    user,             \* st.session_state.user.uid
    messages,         \* st.session_state.messages
    conversation_id,  \* st.session_state.conversation_id
    last,             \* what the last handler did (outputs, calls, toasts)
    runs              \* curation runs of concurrent sessions, per session

vars == <<index, db, session_keys, logged_in, user, messages,
          conversation_id, last, runs>>

----------------------------------------------------------------------------
(* Bounds *)

MaxDocs == 2      \* documents the index may hold in Spec
MaxMsgs == 2      \* messages a session history may hold
MaxConvs == 1     \* conversation records in the db
MaxExtra == 1     \* documents written on top of a large index in SpecLong

----------------------------------------------------------------------------
(* Values *)

None == "None"
Users == {"u1", "u2"}
\* What the user types: its wording decides nothing in the code, so one
\* text per author and position of the history is enough to tell the
\* messages apart.
Question(uid, n) == uid \o " question " \o ToString(n)
Queries(uid, history) == { Question(uid, Len(history) + 1) }
Reply == "reply"
Title == "title"

NL == "\n"
SP == " "
Whitespace == {SP, NL}

RETRIEVE == "RETRIEVE"
SKIP == "SKIP"
BarePersona == "You are a helpful assistant."
ContextPersona == "You are a helpful assistant. Please answer the question based on the context provided."

NoFactsSentinel == "No facts to extract."
FactName == "- Name: Alice (Confidence: High)"
FactNameMedium == "- Name: Alice (Confidence: Medium)"
FactJob == "- Occupation: Software engineer (Confidence: High)"
Prose == "I could not find any facts about the user."

\* Outputs the classification call can return.
DecisionOutputs ==
    { <<RETRIEVE>>, <<SKIP>>, <<>>, <<NL>>,
      <<SP, RETRIEVE>>, <<RETRIEVE, NL>>, <<SP, RETRIEVE, NL>>,
      <<"retrieve">>, <<"Retrieve">>,
      <<"\"", RETRIEVE, "\"">>, <<RETRIEVE, ".">>,
      <<RETRIEVE, SP, "because the user asks about themselves">>,
      <<RETRIEVE, NL, SKIP>>, <<SKIP, SP, RETRIEVE>>, <<SP, SKIP, SP>> }

\* Outputs the extraction call can return: the sentinel, the sentinel with
\* trailing whitespace, well-formed lines (distinct, repeated, reworded,
\* a line and its rewording together), and a trailing newline.
ExtractionOutputs ==
    { <<NoFactsSentinel>>, <<NoFactsSentinel, SP>>,
      <<FactName>>, <<FactNameMedium>>,
      <<FactName, NL, FactJob>>, <<FactName, NL, FactName>>,
      <<FactName, NL, FactNameMedium>>,
      <<FactName, NL>> }

----------------------------------------------------------------------------
(* Python string operations on token sequences *)

Min(a, b) == IF a < b THEN a ELSE b
Abs(n) == IF n < 0 THEN -n ELSE n

RECURSIVE LStrip(_)
LStrip(s) ==
    IF s # <<>> /\ Head(s) \in Whitespace THEN LStrip(Tail(s)) ELSE s

RECURSIVE RStrip(_)
RStrip(s) ==
    IF s # <<>> /\ s[Len(s)] \in Whitespace
    THEN RStrip(SubSeq(s, 1, Len(s) - 1)) ELSE s

\* str.strip()
Strip(s) == RStrip(LStrip(s))

\* str.split("\n"): never empty, "" gives [""]
RECURSIVE Split(_)
Split(s) ==
    IF \A i \in 1..Len(s) : s[i] # NL
    THEN <<s>>
    ELSE LET i == CHOOSE k \in 1..Len(s) :
                      s[k] = NL /\ \A j \in 1..(k - 1) : s[j] # NL
         IN  <<SubSeq(s, 1, i - 1)>> \o Split(SubSeq(s, i + 1, Len(s)))

----------------------------------------------------------------------------
(* The vector index *)

NoveltyThreshold == 10     \* is_new_info: score > 0.1
FactsK == 100              \* get_facts: k=100
RetrieverK == 1000         \* as_retriever: "k": 1000

\* The facts of a user with a long history, one per fact number.
BulkFact(i) == <<"- Travel: Visited city " \o ToString(i) \o " (Confidence: High)">>

BulkEmbedding ==
    LET toks == { BulkFact(i)[1] : i \in 1..FactsK }
    IN  [t \in toks |-> 3 * (CHOOSE i \in 1..FactsK : t = BulkFact(i)[1])]

\* Position of a token on the embedding axis (hundredths).
TokenEmbedding(tok) ==
    CASE tok = FactName        -> 100
      [] tok = FactNameMedium  -> 105
      [] tok = FactJob         -> 400
      [] tok = NoFactsSentinel -> 700
      [] tok = Prose           -> 1000
      [] tok = SP              -> 2
      [] tok \in DOMAIN BulkEmbedding -> BulkEmbedding[tok]
      [] OTHER                 -> 1300

\* The embedding function: where a text lies on the axis.
RECURSIVE Embed(_)
Embed(text) ==
    IF text = <<>> THEN 0 ELSE TokenEmbedding(Head(text)) + Embed(Tail(text))

\* A document as the index keeps it: text, metadata, and the embedding
\* computed when it was added.
Doc(text, uid) ==
    [page_content |-> text, user_id |-> uid, embedding |-> Embed(text)]

\* Matching without its metadata filter.
Matching_unfiltered(idx, uid) == [i \in 1..Len(idx) |-> i]

\* Positions of the documents that pass the metadata filter {"user_id": uid}.
Matching(idx, uid) ==
    SelectSeq([i \in 1..Len(idx) |-> i], LAMBDA i : idx[i].user_id = uid)

\* Distance of every document from the query's embedding.
Distances(idx, query) ==
    LET q == Embed(query)
    IN  [i \in 1..Len(idx) |-> Abs(q - idx[i].embedding)]

\* Nearest-neighbour search: the (at most k) matching documents closest to
\* the query, nearest first; equal distances keep insertion order.
Search(idx, query, k, uid) ==
    LET d == Distances(idx, query)
        ranked == SortSeq(Matching(idx, uid),
                          LAMBDA i, j : d[i] < d[j] \/ (d[i] = d[j] /\ i < j))
    IN  SubSeq(ranked, 1, Min(k, Len(ranked)))

\* vector_store.similarity_search / retriever.get_relevant_documents
similarity_search(idx, query, k, uid) ==
    LET hits == Search(idx, query, k, uid)
    IN  [n \in 1..Len(hits) |-> idx[hits[n]]]

\* similarity_search_with_score called without filter=.
similarity_search_with_score_unfiltered(idx, query, k, uid) ==
    LET d == Distances(idx, query)
        ranked == SortSeq([i \in 1..Len(idx) |-> i],
                          LAMBDA i, j : d[i] < d[j] \/ (d[i] = d[j] /\ i < j))
        hits == SubSeq(ranked, 1, Min(k, Len(ranked)))
    IN  [n \in 1..Len(hits) |-> [doc |-> idx[hits[n]], score |-> d[hits[n]]]]

\* vector_store.similarity_search_with_score
similarity_search_with_score(idx, query, k, uid) ==
    LET hits == Search(idx, query, k, uid)
        d == Distances(idx, query)
    IN  [n \in 1..Len(hits) |-> [doc |-> idx[hits[n]], score |-> d[hits[n]]]]

----------------------------------------------------------------------------
(* Calls to the collaborators, as a handler's log records them: the     *)
(* api, and for the index and the db the user id of the filter or tag.  *)

Call(api, uid) == [api |-> api, user_id |-> uid]

----------------------------------------------------------------------------
(* MemoryService *)

\* extract_facts: what is returned for the gateway's output, a list of
\* lines or the string itself
extract_facts(extracted) ==
    IF extracted # <<NoFactsSentinel>>
    THEN [type |-> "list", value |-> Split(extracted)]
    ELSE [type |-> "str", value |-> extracted]

\* is_new_info that finds everything new.
is_new_info_always(idx, uid, info) == TRUE

\* is_new_info
is_new_info(idx, uid, info) ==
    LET retrieved == similarity_search_with_score(idx, info, 1, uid)
    IN  IF retrieved = <<>> THEN TRUE
        ELSE retrieved[1].score > NoveltyThreshold

\* store_facts building its documents without the user_id metadata.
store_facts_untagged(idx, uid, facts) ==
    idx \o [n \in 1..Len(facts) |-> Doc(facts[n], None)]

\* store_facts rewriting the user's collection: delete, then add.
store_facts_replacing(idx, uid, facts) ==
    SelectSeq(idx, LAMBDA doc : doc.user_id # uid)
        \o [n \in 1..Len(facts) |-> Doc(facts[n], uid)]

\* store_facts: the documents handed to add_documents
store_facts(idx, uid, facts) ==
    idx \o [n \in 1..Len(facts) |-> Doc(facts[n], uid)]

\* get_facts searching without filter=.
get_facts_unfiltered(idx, uid) ==
    LET n == Min(FactsK, Len(idx))
    IN  [i \in 1..n |-> idx[i].page_content]

\* get_facts
get_facts(idx, uid) ==
    LET retrieved == similarity_search(idx, <<>>, FactsK, uid)
    IN  [n \in 1..Len(retrieved) |-> retrieved[n].page_content]

----------------------------------------------------------------------------
(* RetrievalService *)

\* _should_retrieve failing open: anything but SKIP retrieves.
should_retrieve_unless_skip(decision_output) ==
    Strip(decision_output) # <<SKIP>>

\* _should_retrieve: the flag computed from the classifier's output
should_retrieve(decision_output) == Strip(decision_output) = <<RETRIEVE>>

\* _retrieve_if_needed without its early return.
retrieve_always(idx, needs_retrieval, uid) ==
    [context |-> similarity_search(idx, <<>>, RetrieverK, uid),
     calls |-> <<Call("index.search", uid)>>]

\* _retrieve_if_needed reading the index again when nothing came back.
retrieve_if_needed_retrying(idx, needs_retrieval, uid) ==
    IF ~needs_retrieval
    THEN [context |-> <<>>, calls |-> <<>>]
    ELSE LET docs == similarity_search(idx, <<>>, RetrieverK, uid)
         IN  [context |-> docs,
              calls |-> IF docs = <<>>
                        THEN <<Call("index.search", uid),
                               Call("index.search", uid)>>
                        ELSE <<Call("index.search", uid)>>]

\* _retrieve_if_needed, for the retriever __init__ binds to uid: the
\* context, and the index reads made for it
retrieve_if_needed(idx, needs_retrieval, uid) ==
    IF ~needs_retrieval
    THEN [context |-> <<>>, calls |-> <<>>]
    ELSE [context |-> similarity_search(idx, <<>>, RetrieverK, uid),
          calls |-> <<Call("index.search", uid)>>]

----------------------------------------------------------------------------
(* ConversationService *)

HumanMessage(text) == [type |-> "HumanMessage", content |-> text]
AIMessage(text) == [type |-> "AIMessage", content |-> text]

\* _serialize_message
serialize_message(msg) ==
    [type |-> msg.type, content |-> msg.content, additional_kwargs |-> <<>>]

\* _deserialize_message
deserialize_message(message_dict) ==
    IF message_dict.type = "HumanMessage" THEN HumanMessage(message_dict.content)
    ELSE IF message_dict.type = "AIMessage" THEN AIMessage(message_dict.content)
    ELSE IF message_dict.type = "SystemMessage"
         THEN [type |-> "SystemMessage", content |-> message_dict.content]
    ELSE HumanMessage(message_dict.content)

\* create_conversation: conv_id = f"{user_id}_{uuid4()}"
NewConvId(store, uid) == uid \o "_" \o ToString(Cardinality(DOMAIN store) + 1)

\* create_conversation: the record written, with an empty message list
create_conversation(store, uid, title) ==
    (NewConvId(store, uid) :>
        [owner |-> uid, title |-> title, messages |-> <<>>]) @@ store

\* fetch_conversations
fetch_conversations(store, uid) == { c \in DOMAIN store : store[c].owner = uid }

\* save_messages writing the history as it was before the reply.
save_messages_before_reply(store, conv_id, msgs) ==
    [store EXCEPT ![conv_id].messages =
        [n \in 1..(Len(msgs) - 1) |-> serialize_message(msgs[n])]]

\* save_messages writing only the turn just completed.
save_messages_last_turn(store, conv_id, msgs) ==
    [store EXCEPT ![conv_id].messages =
        [n \in 1..Min(2, Len(msgs)) |->
            serialize_message(msgs[Len(msgs) - Min(2, Len(msgs)) + n])]]

\* save_messages: conversation conv_id after set(..., merge=True)
save_messages(store, conv_id, msgs) ==
    [store EXCEPT ![conv_id].messages =
        [n \in 1..Len(msgs) |-> serialize_message(msgs[n])]]

----------------------------------------------------------------------------
(* What a handler leaves behind for the user and the collaborators to see *)

NoSystemMsg == [persona |-> None, context |-> <<>>]
NoFacts == [type |-> "None", value |-> <<>>]

Idle ==
    [op |-> "none", user |-> None, failure |-> "none", calls |-> <<>>,
     decision |-> <<>>, phase |-> "NONE", needs_retrieval |-> FALSE,
     context |-> <<>>, system_msg |-> NoSystemMsg,
     extract_input |-> <<>>, extracted |-> <<>>, facts |-> NoFacts,
     facts_to_add |-> <<>>,
     repeat |-> FALSE, toast |-> None, shown |-> <<>>]

AllKeys == {"logged_in", "user", "messages", "conversation_id", "model_params"}

\* Browser sessions that run side by side, and the user logged in to them.
Sessions == {"s1", "s2"}
SessionUser == "u1"

\* A session's curation run: where _handle_fact_extraction stands, the
\* extractor's output and facts_to_add; raced tells whether a run of the
\* session ever had its checks or its store inside another session's run.
NoRun == [pc |-> "idle", extracted |-> <<>>, facts_to_add |-> <<>>,
          raced |-> FALSE]
NoRuns == [s \in Sessions |-> NoRun]

----------------------------------------------------------------------------
(* app.py: the login gate *)

\* The login, with the vector_store.delete(where={"user_id": ...}) of
\* app.py in force on the rerun.
Login_deleting(u) ==
    /\ "logged_in" \notin session_keys
    /\ logged_in' = TRUE
    /\ user' = u
    /\ session_keys' = AllKeys
    /\ messages' = IF "messages" \in session_keys THEN messages ELSE <<>>
    /\ conversation_id' =
           IF "conversation_id" \in session_keys THEN conversation_id ELSE None
    /\ last' = [Idle EXCEPT !.op = "login", !.user = u]
    /\ index' = SelectSeq(index, LAMBDA doc : doc.user_id # "u1")
    /\ db' = db
    /\ UNCHANGED runs

\* A successful login or registration, then the rerun that builds the
\* services and ChatUI.
Login(u) ==
    /\ "logged_in" \notin session_keys
    /\ logged_in' = TRUE
    /\ user' = u
    /\ session_keys' = AllKeys
    /\ messages' = IF "messages" \in session_keys THEN messages ELSE <<>>
    /\ conversation_id' =
           IF "conversation_id" \in session_keys THEN conversation_id ELSE None
    /\ last' = [Idle EXCEPT !.op = "login", !.user = u]
    /\ UNCHANGED <<index, db, runs>>

\* _render_logout_button deleting only the login keys.
Logout_keeping_history ==
    /\ logged_in
    /\ session_keys' = session_keys \ {"logged_in", "user"}
    /\ logged_in' = FALSE
    /\ user' = None
    /\ last' = [Idle EXCEPT !.op = "logout"]
    /\ UNCHANGED <<index, db, messages, conversation_id, runs>>

\* _render_logout_button: st.session_state.clear() and rerun
Logout ==
    /\ logged_in
    /\ session_keys' = {}
    /\ logged_in' = FALSE
    /\ user' = None
    /\ messages' = <<>>
    /\ conversation_id' = None
    /\ last' = [Idle EXCEPT !.op = "logout"]
    /\ UNCHANGED <<index, db, runs>>

----------------------------------------------------------------------------
(* ChatUI: a user turn *)

TurnFailures == {"none", "decide", "retrieve", "generate", "title", "create", "save"}

\* _process_user_message choosing the prompt by whether facts came back.
system_message_by_context(needs_retrieval, context) ==
    IF context # <<>>
    THEN [persona |-> ContextPersona, context |-> context]
    ELSE [persona |-> BarePersona, context |-> <<>>]

\* _process_user_message: the system message for the retrieval result
system_message(needs_retrieval, context) ==
    IF needs_retrieval
    THEN [persona |-> ContextPersona, context |-> context]
    ELSE [persona |-> BarePersona, context |-> <<>>]

\* _handle_user_input: _process_user_message, _generate_and_display_response
\* and _save_conversation, for the input text, the classifier's output and
\* the external call that raises (if any).  An exception ends the script
\* run where it is raised; what was assigned before stays.
HandleUserInput(user_input, decision, fail, history) ==
    LET needs == should_retrieve(decision)
        retrieval == retrieve_if_needed(index, needs, user)
        context == retrieval.context
        asked == Append(messages, HumanMessage(user_input))
        answered == Append(asked, AIMessage(Reply))
        fresh == conversation_id = None
        conv_id == IF fresh THEN NewConvId(db, user) ELSE conversation_id
        created == IF fresh THEN create_conversation(db, user, Title) ELSE db
        \* how far the run gets
        decided == fail # "decide"
        retrieved == decided /\ fail # "retrieve"
        replied == retrieved /\ fail # "generate"
        titled == replied /\ fail # "title"
        stored == titled /\ fail # "create"
        saved == stored /\ fail # "save"
        calls ==
            <<Call("llm.decide", None)>>
            \o (IF decided THEN retrieval.calls ELSE <<>>)
            \o (IF retrieved THEN <<Call("llm.generate", None)>> ELSE <<>>)
            \o (IF replied /\ fresh THEN <<Call("llm.title", None)>> ELSE <<>>)
            \o (IF titled /\ fresh THEN <<Call("db.create", user)>> ELSE <<>>)
            \o (IF stored THEN <<Call("db.save", user)>> ELSE <<>>)
    IN  /\ logged_in
        /\ Len(messages) + 2 <= history
        /\ fresh => Cardinality(DOMAIN db) < MaxConvs
        /\ fail = "retrieve" => needs
        /\ fail \in {"title", "create"} => fresh
        /\ messages' = IF replied THEN answered
                       ELSE IF retrieved THEN asked ELSE messages
        /\ conversation_id' = IF stored THEN conv_id ELSE conversation_id
        /\ db' = IF saved THEN save_messages(created, conv_id, answered)
                 ELSE IF stored THEN created ELSE db
        /\ last' = [Idle EXCEPT
                      !.op = "turn", !.user = user, !.failure = fail,
                      !.calls = calls,
                      !.decision = decision,
                      !.phase = IF ~decided THEN "PENDING"
                                ELSE IF ~retrieved THEN "DECIDED"
                                ELSE IF needs THEN "RETRIEVED" ELSE "SKIPPED",
                      !.needs_retrieval = decided /\ needs,
                      !.context = IF retrieved THEN context ELSE <<>>,
                      !.system_msg = IF retrieved
                                     THEN system_message(needs, context)
                                     ELSE NoSystemMsg]
        /\ UNCHANGED <<index, session_keys, logged_in, user, runs>>

UserTurn(decisions, history) ==
    \E q \in Queries(user, messages), d \in decisions, f \in TurnFailures :
        HandleUserInput(q, d, f, history)

\* _reset_conversation
NewChat ==
    /\ logged_in
    /\ conversation_id' = None
    /\ messages' = <<>>
    /\ last' = [Idle EXCEPT !.op = "new_chat", !.user = user]
    /\ UNCHANGED <<index, db, session_keys, logged_in, user, runs>>

\* _load_conversation, for a button of _render_conversation_history
LoadConversation(conv_id) ==
    /\ logged_in
    /\ conv_id \in fetch_conversations(db, user)
    /\ conversation_id' = conv_id
    /\ messages' = [n \in 1..Len(db[conv_id].messages) |->
                       deserialize_message(db[conv_id].messages[n])]
    /\ last' = [Idle EXCEPT !.op = "load", !.user = user]
    /\ UNCHANGED <<index, db, session_keys, logged_in, user, runs>>

----------------------------------------------------------------------------
(* ChatUI: memory actions *)

CurationFailures == {"none", "extract", "is_new", "store"}

\* _handle_fact_extraction taking the content of every message.
user_messages_of_all_roles(msgs) == [n \in 1..Len(msgs) |-> msgs[n].content]

\* _handle_fact_extraction: user_messages, the contents of the HumanMessages
user_messages(msgs) ==
    LET human == SelectSeq(msgs, LAMBDA m : m.type = "HumanMessage")
    IN  [n \in 1..Len(human) |-> human[n].content]

\* _handle_fact_extraction keeping every extracted line.
facts_to_add_unchecked(idx, uid, lines) == lines

\* _handle_fact_extraction checking each line against the index and the
\* lines of the batch already taken.
RECURSIVE select_facts_to_add_one_by_one(_, _, _)
select_facts_to_add_one_by_one(idx, uid, lines) ==
    IF lines = <<>> THEN <<>>
    ELSE IF is_new_info(idx, uid, Head(lines))
    THEN <<Head(lines)>>
         \o select_facts_to_add_one_by_one(
                idx \o <<Doc(Head(lines), uid)>>, uid, Tail(lines))
    ELSE select_facts_to_add_one_by_one(idx, uid, Tail(lines))

\* _handle_fact_extraction: facts_to_add, the lines is_new_info is true for
select_facts_to_add(idx, uid, lines) ==
    SelectSeq(lines, LAMBDA fact : is_new_info(idx, uid, fact))

\* _handle_fact_extraction with store_facts failing quietly.
curation_toast_swallowing(fail, none_found, novel) ==
    IF fail \notin {"none", "store"} THEN None
    ELSE IF none_found THEN "No facts found"
    ELSE IF novel # <<>> THEN "Saved new information!"
    ELSE "Information already saved"

\* _handle_fact_extraction: the st.toast a run ends with; none when an
\* exception ended it first
curation_toast(fail, none_found, novel) ==
    IF fail # "none" THEN None
    ELSE IF none_found THEN "No facts found"
    ELSE IF novel # <<>> THEN "Saved new information!"
    ELSE "Information already saved"

\* _handle_fact_extraction, for the extractor's output and the external
\* call that raises (if any): the is_new_info check number `at`, or
\* add_documents after `written` of the documents went in.
HandleFactExtraction(extracted, fail, at, written, limit) ==
    LET facts == extract_facts(extracted)
        none_found == facts.type = "str" /\ facts.value = <<NoFactsSentinel>>
        lines == IF facts.type = "list" THEN facts.value ELSE <<>>
        facts_to_add == select_facts_to_add(index, user, lines)
        extracted_ok == fail # "extract"
        checked == extracted_ok /\ ~none_found /\ fail # "is_new"
        storing == checked /\ facts_to_add # <<>>
        checks == IF ~extracted_ok \/ none_found THEN 0
                  ELSE IF fail = "is_new" THEN at ELSE Len(lines)
        calls ==
            <<Call("llm.extract", None)>>
            \o [n \in 1..checks |-> Call("index.search", user)]
            \o (IF storing THEN <<Call("index.add", user)>> ELSE <<>>)
    IN  /\ logged_in
        /\ IF messages = <<>>
           THEN /\ fail = "none" /\ at = 1 /\ written = 0
                /\ extracted = <<NoFactsSentinel>>
                /\ index' = index
                /\ last' = [Idle EXCEPT !.op = "extract", !.user = user,
                                        !.toast = "No messages to extract"]
           ELSE /\ fail = "is_new" => ~none_found /\ at \in 1..Len(lines)
                /\ fail # "is_new" => at = 1
                /\ fail = "store" =>
                       facts_to_add # <<>> /\ written < Len(facts_to_add)
                /\ fail # "store" => written = 0
                /\ Len(index) + Len(facts_to_add) <= limit
                /\ index' =
                       IF ~storing THEN index
                       ELSE IF fail = "store"
                       THEN store_facts(index, user,
                                        SubSeq(facts_to_add, 1, written))
                       ELSE store_facts(index, user, facts_to_add)
                /\ last' = [Idle EXCEPT
                       !.op = "extract", !.user = user, !.failure = fail,
                       !.calls = calls,
                       !.extract_input = user_messages(messages),
                       !.extracted = extracted,
                       !.facts = IF extracted_ok THEN facts ELSE NoFacts,
                       !.facts_to_add = IF checked THEN facts_to_add ELSE <<>>,
                       !.repeat = /\ last.op = "extract"
                                  /\ last.failure = "none"
                                  /\ last.calls # <<>>
                                  /\ last.user = user
                                  /\ last.extracted = extracted,
                       !.toast = curation_toast(fail, none_found,
                                                facts_to_add)]
        /\ UNCHANGED <<db, session_keys, logged_in, user, messages,
                       conversation_id, runs>>

ExtractFacts(outputs, limit) ==
    \E e \in outputs, f \in CurationFailures :
        \E at \in IF f = "is_new" THEN 1..(Len(e) + 1) ELSE {1},
           w \in IF f = "store" THEN 0..Len(e) ELSE {0} :
            HandleFactExtraction(e, f, at, w, limit)

\* _render_user_facts, for a click on "Show My Facts"
RenderUserFacts(fail) ==
    LET all_docs == get_facts(index, user) IN
    /\ logged_in
    /\ last' = [Idle EXCEPT
                  !.op = "show", !.user = user,
                  !.failure = IF fail THEN "get_facts" ELSE "none",
                  !.calls = <<Call("index.search", user)>>,
                  !.shown = IF fail THEN <<>> ELSE all_docs,
                  !.toast = IF ~fail /\ all_docs = <<>>
                            THEN "No facts found" ELSE None]
    /\ UNCHANGED <<index, db, session_keys, logged_in, user, messages,
                   conversation_id, runs>>

ShowFacts == \E fail \in BOOLEAN : RenderUserFacts(fail)

----------------------------------------------------------------------------
(* ChatUI: curation runs of two sessions of one user, each in the steps    *)
(* the index sees: the is_new_info reads, then the add_documents write.    *)

\* Facts the runs of other sessions have checked and not yet stored.
RECURSIVE PendingFacts(_)
PendingFacts(S) ==
    IF S = {} THEN 0
    ELSE LET s == CHOOSE t \in S : TRUE
         IN  (IF runs[s].pc = "checked" THEN Len(runs[s].facts_to_add) ELSE 0)
             + PendingFacts(S \ {s})

\* _handle_fact_extraction of session s up to the end of the list
\* comprehension: extract_facts, then is_new_info for every line
CheckFacts(s, extracted, limit) ==
    LET facts == extract_facts(extracted)
        lines == IF facts.type = "list" THEN facts.value ELSE <<>>
        novel == select_facts_to_add(index, SessionUser, lines)
        open == { t \in Sessions \ {s} : runs[t].pc = "checked" }
    IN  /\ runs[s].pc # "checked"
        /\ Len(index) + PendingFacts(Sessions) + Len(novel) <= limit
        /\ runs' = [t \in Sessions |->
                      IF t = s
                      THEN [pc |-> "checked", extracted |-> extracted,
                            facts_to_add |-> novel,
                            raced |-> runs[s].raced \/ open # {}]
                      ELSE IF t \in open
                      THEN [runs[t] EXCEPT !.raced = TRUE]
                      ELSE runs[t]]
        /\ UNCHANGED <<index, db, session_keys, logged_in, user, messages,
                       conversation_id, last>>

\* _handle_fact_extraction of session s from `if facts_to_add:` on
StoreChecked(s) ==
    /\ runs[s].pc = "checked"
    /\ index' = IF runs[s].facts_to_add # <<>>
                THEN store_facts(index, SessionUser, runs[s].facts_to_add)
                ELSE index
    /\ runs' = [runs EXCEPT ![s].pc = "done"]
    /\ UNCHANGED <<db, session_keys, logged_in, user, messages,
                   conversation_id, last>>

----------------------------------------------------------------------------
(* The application *)

CoreDecisions == { <<RETRIEVE>>, <<SKIP>>, <<SP, RETRIEVE, NL>> }
CoreExtractions ==
    { <<NoFactsSentinel>>, <<FactName>>, <<FactName, NL, FactJob>> }

Init ==
    /\ index = <<>>
    /\ db = <<>>
    /\ session_keys = {}
    /\ logged_in = FALSE
    /\ user = None
    /\ messages = <<>>
    /\ conversation_id = None
    /\ last = Idle
    /\ runs = NoRuns

Next ==
    \/ \E u \in Users : Login(u)
    \/ Logout
    \/ UserTurn(CoreDecisions, MaxMsgs)
    \/ NewChat
    \/ \E c \in DOMAIN db : LoadConversation(c)
    \/ ExtractFacts(CoreExtractions, MaxDocs)
    \/ ShowFacts

Spec == Init /\ [][Next]_vars

----------------------------------------------------------------------------
(* The turn pipeline alone, over an index that already holds facts of two  *)
(* users, with every classifier output.                                    *)

MixedIndex ==
    <<Doc(<<FactName>>, "u1"), Doc(<<FactJob>>, "u2"),
      Doc(<<FactJob>>, "u1"), Doc(<<FactNameMedium>>, "u2")>>

InitChat ==
    /\ index \in {<<>>, MixedIndex}
    /\ db = <<>>
    /\ session_keys = {}
    /\ logged_in = FALSE
    /\ user = None
    /\ messages = <<>>
    /\ conversation_id = None
    /\ last = Idle
    /\ runs = NoRuns

NextChat ==
    \/ \E u \in Users : Login(u)
    \/ Logout
    \/ UserTurn(DecisionOutputs, MaxMsgs + 2)
    \/ NewChat
    \/ \E c \in DOMAIN db : LoadConversation(c)

SpecChat == InitChat /\ [][NextChat]_vars

----------------------------------------------------------------------------
(* The conversations alone: turns, new chats and loads from a first login  *)
(* on, over an empty index.                                                *)

NextConv ==
    \/ \E u \in Users : Login(u)
    \/ Logout
    \/ UserTurn(CoreDecisions, MaxMsgs + 2)
    \/ NewChat
    \/ \E c \in DOMAIN db : LoadConversation(c)

SpecConv == Init /\ [][NextConv]_vars

----------------------------------------------------------------------------
(* The memory actions alone, starting where each user has one saved        *)
(* conversation to load, with every extractor output.                      *)

SavedConversations ==
    LET saved(uid) == <<serialize_message(HumanMessage(Question(uid, 1))),
                        serialize_message(AIMessage(Reply))>>
    IN  ("u1_1" :> [owner |-> "u1", title |-> Title, messages |-> saved("u1")])
        @@ ("u2_2" :> [owner |-> "u2", title |-> Title,
                       messages |-> saved("u2")])

InitMemory ==
    /\ index = <<>>
    /\ db = SavedConversations
    /\ session_keys = {}
    /\ logged_in = FALSE
    /\ user = None
    /\ messages = <<>>
    /\ conversation_id = None
    /\ last = Idle
    /\ runs = NoRuns

NextMemory ==
    \/ \E u \in Users : Login(u)
    \/ Logout
    \/ NewChat
    \/ \E c \in DOMAIN db : LoadConversation(c)
    \/ ExtractFacts(ExtractionOutputs, MaxDocs)
    \/ ShowFacts

SpecMemory == InitMemory /\ [][NextMemory]_vars

----------------------------------------------------------------------------
(* The whole application, starting where each user has one saved           *)
(* conversation: turns continue a loaded conversation while facts are      *)
(* curated.                                                                *)

NextSaved ==
    \/ \E u \in Users : Login(u)
    \/ Logout
    \/ UserTurn(CoreDecisions, MaxMsgs + 2)
    \/ NewChat
    \/ \E c \in DOMAIN db : LoadConversation(c)
    \/ ExtractFacts(CoreExtractions, MaxDocs)
    \/ ShowFacts

SpecSaved == InitMemory /\ [][NextSaved]_vars

----------------------------------------------------------------------------
(* The memory actions over the index of a user with a long history: as     *)
(* many facts as get_facts asks for, or one fewer.                         *)

LongIndex(n) ==
    [i \in 1..n |-> Doc(BulkFact(i), "u1")] \o <<Doc(<<FactName>>, "u2")>>

LongExtractions ==
    { <<NoFactsSentinel>>, <<FactName>>, <<FactJob>>, <<FactJob, NL, Prose>> }

InitLong ==
    /\ index \in {LongIndex(FactsK - 1), LongIndex(FactsK)}
    /\ db = SavedConversations
    /\ session_keys = {}
    /\ logged_in = FALSE
    /\ user = None
    /\ messages = <<>>
    /\ conversation_id = None
    /\ last = Idle
    /\ runs = NoRuns

NextLong ==
    \/ \E u \in Users : Login(u)
    \/ Logout
    \/ NewChat
    \/ \E c \in DOMAIN db : LoadConversation(c)
    \/ ExtractFacts(LongExtractions, FactsK + 1 + MaxExtra)
    \/ ShowFacts

SpecLong == InitLong /\ [][NextLong]_vars

----------------------------------------------------------------------------
(* Two sessions of one user curating side by side.                         *)

SessionExtractions ==
    { <<NoFactsSentinel>>, <<FactName>>, <<FactJob>>, <<FactName, NL, FactJob>> }

NextSessions ==
    \/ \E s \in Sessions, e \in SessionExtractions :
           CheckFacts(s, e, MaxDocs + 2)
    \/ \E s \in Sessions : StoreChecked(s)

SpecSessions == Init /\ [][NextSessions]_vars

----------------------------------------------------------------------------
(* Properties *)

Range(seq) == { seq[n] : n \in 1..Len(seq) }
Apis(calls) == { calls[n].api : n \in 1..Len(calls) }
CountOf(idx, uid, text) ==
    Cardinality({ i \in 1..Len(idx) :
                    idx[i].user_id = uid /\ idx[i].page_content = text })
Turned == last.op = "turn"
Curated == last.op = "extract" /\ last.calls # <<>>

\* C1: the context a turn of user U retrieves, and the context in the system
\* prompt assembled from it, hold only facts whose user_id is U.
C1_ContextOwnedByUser ==
    Turned =>
        /\ last.user = user
        /\ \A doc \in Range(last.context) : doc.user_id = user
        /\ \A doc \in Range(last.system_msg.context) : doc.user_id = user

\* C1 witness: a turn retrieved facts while the index held another user's.
C1_Witness ==
    /\ Turned
    /\ last.context # <<>>
    /\ last.system_msg.context = last.context
    /\ \E i \in 1..Len(index) : index[i].user_id # last.user

----------------------------------------------------------------------------

\* The classifier's output is RETRIEVE with nothing but whitespace around it.
PaddedRetrieve(output) ==
    \E i \in 1..Len(output) :
        /\ output[i] = RETRIEVE
        /\ \A j \in 1..Len(output) : j # i => output[j] \in Whitespace

\* C5: needs_retrieval is true only for an output that is RETRIEVE once
\* surrounding whitespace is trimmed; any other output gives false and no
\* index query.
C5_FailSafeGate ==
    Turned =>
        /\ last.needs_retrieval => PaddedRetrieve(last.decision)
        /\ ~PaddedRetrieve(last.decision) =>
               ~last.needs_retrieval /\ "index.search" \notin Apis(last.calls)

\* C5 witness: a completed turn whose classifier output was the token in
\* quotes, and one whose output was the token followed by an explanation.
C5_Witness ==
    /\ Turned
    /\ last.failure = "none"
    /\ last.decision \in { <<"\"", RETRIEVE, "\"">>,
                           <<RETRIEVE, SP, "because the user asks about themselves">> }
    /\ ~last.needs_retrieval
    /\ last.phase = "SKIPPED"

\* C6: a turn reads the index only when needs_retrieval is true; when it is
\* false there is no index read and the context is empty.
C6_RetrieveOnlyWhenNeeded ==
    Turned =>
        /\ "index.search" \in Apis(last.calls) => last.needs_retrieval
        /\ ~last.needs_retrieval =>
               /\ "index.search" \notin Apis(last.calls)
               /\ last.context = <<>>
               /\ last.system_msg.context = <<>>

\* C6 witness: a completed turn that skipped retrieval although the user
\* has facts in the index.
C6_Witness ==
    /\ Turned
    /\ last.failure = "none"
    /\ ~last.needs_retrieval
    /\ \E i \in 1..Len(index) : index[i].user_id = last.user

----------------------------------------------------------------------------

\* C7 as claimed: when the decision call fails the engine ends SKIPPED with
\* needs_retrieval false, and the turn assembles the bare persona prompt and
\* generates a reply.
C7_DecisionFailureDegradesToSkip ==
    (Turned /\ last.failure = "decide") =>
        /\ last.phase = "SKIPPED"
        /\ ~last.needs_retrieval
        /\ last.system_msg.persona = BarePersona
        /\ "llm.generate" \in Apis(last.calls)

\* C8 as claimed: when the index read of a turn with needs_retrieval fails,
\* the context is empty and the turn goes on to generate the reply and save
\* the conversation.
C8_IndexFailureDegradesToEmpty ==
    (Turned /\ last.failure = "retrieve") =>
        /\ last.needs_retrieval
        /\ last.context = <<>>
        /\ "llm.generate" \in Apis(last.calls)
        /\ "db.save" \in Apis(last.calls)

\* C9 as claimed: a turn in which a gateway call fails (decision, reply or
\* title) leaves the message history, the conversation id and the persisted
\* conversations as they were before the turn.
C9_GatewayFailureCommitsNothing ==
    [][(last'.op = "turn" /\ last'.failure \in {"decide", "generate", "title"})
        => /\ messages' = messages
           /\ conversation_id' = conversation_id
           /\ db' = db]_vars

----------------------------------------------------------------------------

----------------------------------------------------------------------------

\* The lines extract_facts splits the last extractor output into.
LastLines == IF last.facts.type = "list" THEN last.facts.value ELSE <<>>

\* C3 as claimed: after the curation flow ran twice in sequence for the same
\* user with the same extractor output, the store holds each line once.
C3_EachFactOnce ==
    (Curated /\ last.failure = "none" /\ last.repeat) =>
        \A line \in Range(LastLines) : CountOf(index, last.user, line) = 1

----------------------------------------------------------------------------

CandidateTexts ==
    { <<FactName>>, <<FactNameMedium>>, <<FactJob>>, <<>>,
      <<NoFactsSentinel, SP>>, <<NoFactsSentinel>> }

\* C4: while the index holds no fact of U, isNew(U, text) is true for every
\* text, whatever other users have stored.
C4_NewWhenUserHasNoFacts ==
    \A u \in Users :
        (\A i \in 1..Len(index) : index[i].user_id # u) =>
            \A text \in CandidateTexts : is_new_info(index, u, text)

\* C4 witness: a curation run of a user who had no facts found every line
\* new and stored it, one of them a text another user already holds.
C4_Witness ==
    /\ Curated
    /\ last.failure = "none"
    /\ last.facts_to_add = LastLines
    /\ LastLines # <<>>
    /\ Cardinality({ i \in 1..Len(index) : index[i].user_id = last.user })
           = Len(LastLines)
    /\ \E v \in Users \ {last.user}, line \in Range(LastLines) :
           CountOf(index, v, line) > 0

----------------------------------------------------------------------------

FactLines == {FactName, FactNameMedium, FactJob}

\* The output is one or more lines in the bullet format, one per line.
WellFormed(output) ==
    /\ Len(output) % 2 = 1
    /\ \A i \in 1..Len(output) :
           IF i % 2 = 1 THEN output[i] \in FactLines ELSE output[i] = NL

\* C10 as claimed: an extractor output that is neither the exact sentinel
\* nor well-formed lines is treated as no facts found, and nothing is
\* written to the index.
C10_MalformedExtractionStoresNothing ==
    [][(last'.op = "extract" /\ last'.calls # <<>> /\ last'.failure = "none"
        /\ last'.extracted # <<NoFactsSentinel>>
        /\ ~WellFormed(last'.extracted))
        => /\ index' = index
           /\ last'.toast = "No facts found"]_vars

----------------------------------------------------------------------------

\* The documents a step appended to the index.
Appended == SubSeq(index', Len(index) + 1, Len(index'))

\* C11: a curation run writes a candidate line exactly when is_new_info was
\* true for it against the index the run found: a completed run appends the
\* novel lines, in order and nothing else; a run that an exception ends
\* appends at most some of them; and a completed run with no novel line
\* makes no store call, leaves the index alone and toasts "Information
\* already saved".
C11_StoresOnlyNovelSubset ==
    [][(last'.op = "extract" /\ last'.calls # <<>>) =>
        LET lines == IF last'.facts.type = "list"
                     THEN last'.facts.value ELSE <<>>
            novel == SelectSeq(lines,
                               LAMBDA line : is_new_info(index, user, line))
            docs == [n \in 1..Len(novel) |-> Doc(novel[n], user)]
        IN  /\ SubSeq(index', 1, Len(index)) = index
            /\ Len(Appended) <= Len(docs)
            /\ Appended = SubSeq(docs, 1, Len(Appended))
            /\ last'.failure = "none" =>
                   /\ Appended = docs
                   /\ last'.facts_to_add = novel
                   /\ novel # <<>> => last'.toast = "Saved new information!"
            /\ (last'.failure = "none" /\ lines # <<>> /\ novel = <<>>) =>
                   /\ "index.add" \notin Apis(last'.calls)
                   /\ index' = index
                   /\ last'.toast = "Information already saved"]_vars

\* C11 witness: a completed run whose output had a line the user already
\* holds and a new one, and stored only the new one.
C11_Witness ==
    /\ Curated
    /\ last.failure = "none"
    /\ last.facts_to_add # <<>>
    /\ Len(last.facts_to_add) < Len(LastLines)
    /\ last.toast = "Saved new information!"
    /\ \E line \in Range(LastLines) :
           /\ line \notin Range(last.facts_to_add)
           /\ CountOf(index, last.user, line) = 1

----------------------------------------------------------------------------

IndexApis == {"index.search", "index.add"}

\* The texts of the documents of idx that carry user_id = uid.
TextsOf(idx, uid) ==
    { idx[i].page_content : i \in { j \in 1..Len(idx) : idx[j].user_id = uid } }

\* C12: every handler reads and writes the index for the user logged in when
\* it runs: each index call carries that user's id, a turn's context and the
\* facts shown hold only that user's documents, a line is dropped as known
\* only when that user holds a document within the threshold of it, and every
\* document written is tagged with that user's id.
C12_OwnerScopedAccess ==
    [][/\ \A n \in 1..Len(last'.calls) :
              last'.calls[n].api \in IndexApis =>
                  /\ logged_in /\ user \in Users
                  /\ last'.calls[n].user_id = user
       /\ \A doc \in Range(Appended) : doc.user_id = user
       /\ \A doc \in Range(last'.context) : doc.user_id = user
       /\ Range(last'.shown) \subseteq TextsOf(index, user)
       /\ (last'.op = "extract" /\ last'.failure = "none"
              /\ last'.facts.type = "list") =>
              \A line \in Range(last'.facts.value) \ Range(last'.facts_to_add) :
                  \E i \in 1..Len(index) :
                      /\ index[i].user_id = user
                      /\ Abs(Embed(line) - index[i].embedding)
                             <= NoveltyThreshold]_vars

\* C12 witness: after a logout and a login as another user, a curation run
\* stored that user's fact in an index holding the first user's fact.
C12_Witness ==
    /\ Curated
    /\ last.failure = "none"
    /\ last.facts_to_add # <<>>
    /\ index[Len(index)].user_id = user
    /\ \E i \in 1..Len(index) : index[i].user_id \notin {user, None}

----------------------------------------------------------------------------

\* C13: a turn whose decision call or index read fails leaves the persisted
\* conversations and the index as they were; a curation run in which the
\* extraction, an is_new_info check or the store fails leaves the persisted
\* conversations as they were and every document the index held in place and
\* unchanged.
C13_FailureKeepsPersistedState ==
    [][/\ (last'.op = "turn" /\ last'.failure \in {"decide", "retrieve"}) =>
              db' = db /\ index' = index
       /\ (last'.op = "extract"
              /\ last'.failure \in {"extract", "is_new", "store"}) =>
              /\ db' = db
              /\ Len(index') >= Len(index)
              /\ SubSeq(index', 1, Len(index)) = index]_vars

\* C13 witness: the index read failed in a turn on a conversation that has
\* persisted messages, for a user who has stored facts.
C13_Witness ==
    /\ Turned
    /\ last.failure = "retrieve"
    /\ conversation_id \in DOMAIN db
    /\ db[conversation_id].messages # <<>>
    /\ \E i \in 1..Len(index) : index[i].user_id = user

----------------------------------------------------------------------------

\* C14: no step of the application updates or deletes a stored fact: every
\* document of the index stays at its place with its content and user_id,
\* whatever the step (login, logout, turn, new chat, load, curation, show).
C14_FactsGrowOnly ==
    [][/\ Len(index') >= Len(index)
       /\ \A i \in 1..Len(index) :
              /\ index'[i].page_content = index[i].page_content
              /\ index'[i].user_id = index[i].user_id]_vars

\* C14 witness: both users' facts are in the index after the second of them
\* stored, continued a conversation and logged out.
C14_Witness ==
    /\ last.op = "logout"
    /\ \A u \in Users : \E i \in 1..Len(index) : index[i].user_id = u
    /\ \E c \in DOMAIN db : Len(db[c].messages) > 2

----------------------------------------------------------------------------

\* C15: the system message a turn generates its reply with is the bare
\* persona exactly when the turn's needs_retrieval is false; otherwise it is
\* the context prompt, and the context in it is the list the turn's index
\* read returned for its user, empty or not.
C15_PromptComposition ==
    (Turned /\ "llm.generate" \in Apis(last.calls)) =>
        /\ last.system_msg.persona \in {BarePersona, ContextPersona}
        /\ last.system_msg.persona = BarePersona <=> ~last.needs_retrieval
        /\ last.system_msg.persona = BarePersona =>
               last.system_msg.context = <<>>
        /\ last.needs_retrieval =>
               /\ last.system_msg.persona = ContextPersona
               /\ last.system_msg.context = last.context
               /\ last.system_msg.context =
                      similarity_search(index, <<>>, RetrieverK, last.user)

\* C15 witness: a completed turn that retrieved, got an empty list back and
\* used the context prompt with it.
C15_Witness ==
    /\ Turned
    /\ last.failure = "none"
    /\ last.needs_retrieval
    /\ last.phase = "RETRIEVED"
    /\ last.context = <<>>
    /\ last.system_msg = [persona |-> ContextPersona, context |-> <<>>]

----------------------------------------------------------------------------

\* C16: every step leaves each persisted conversation in the db with its
\* earlier messages in place, role and content unchanged: what a save writes
\* has the list persisted before as a prefix.
C16_ConversationAppendOnly ==
    [][\A c \in DOMAIN db :
          /\ c \in DOMAIN db'
          /\ db'[c].owner = db[c].owner
          /\ Len(db'[c].messages) >= Len(db[c].messages)
          /\ \A n \in 1..Len(db[c].messages) :
                 /\ db'[c].messages[n].type = db[c].messages[n].type
                 /\ db'[c].messages[n].content = db[c].messages[n].content]_vars

\* C16 witness: a turn saved a conversation that already had a persisted
\* turn, and the persisted list is the whole history.
C16_Witness ==
    /\ Turned
    /\ last.failure = "none"
    /\ conversation_id \in DOMAIN db
    /\ Len(db[conversation_id].messages) >= 4
    /\ Len(db[conversation_id].messages) = Len(messages)

----------------------------------------------------------------------------

\* C17: a curation run whose index write fails ends in the exception
\* add_documents raised, shown in place of any toast: it reports neither
\* "Saved new information!" nor "Information already saved", although it
\* had novel facts to store.
C17_StoreFailureNotReportedAsSuccess ==
    (Curated /\ last.failure = "store") =>
        /\ "index.add" \in Apis(last.calls)
        /\ last.facts_to_add # <<>>
        /\ last.toast = None
        /\ last.toast \notin {"Saved new information!",
                              "Information already saved", "No facts found"}

\* C17 witness: the write of a run with two novel facts failed after the
\* first of them went in.
C17_Witness ==
    /\ Curated
    /\ last.failure = "store"
    /\ Len(last.facts_to_add) = 2
    /\ last.toast = None
    /\ CountOf(index, user, last.facts_to_add[1]) = 1
    /\ CountOf(index, user, last.facts_to_add[2]) = 0

----------------------------------------------------------------------------

\* Positions of the calls to api in a handler's log.
CallsTo(calls, api) == { n \in 1..Len(calls) : calls[n].api = api }

\* C18: a turn's calls are one decision call first, then at most one index
\* read, then the reply generation; the engine is in SKIPPED (no index read)
\* or RETRIEVED (one index read) whenever a prompt was assembled, and short
\* of these only in a turn that the decision call or the index read ended.
C18_EngineSequence ==
    Turned =>
        LET decides == CallsTo(last.calls, "llm.decide")
            reads == CallsTo(last.calls, "index.search")
            generates == CallsTo(last.calls, "llm.generate")
        IN  /\ decides = {1}
            /\ Cardinality(reads) <= 1
            /\ reads \subseteq {2}
            /\ Cardinality(generates) <= 1
            /\ \A g \in generates : g = Cardinality(reads) + 2
            /\ last.phase \in {"PENDING", "DECIDED", "SKIPPED", "RETRIEVED"}
            /\ last.phase = "PENDING" <=> last.failure = "decide"
            /\ last.phase = "DECIDED" <=> last.failure = "retrieve"
            /\ last.phase = "PENDING" => reads = {}
            /\ last.phase = "SKIPPED" => ~last.needs_retrieval /\ reads = {}
            /\ last.phase \in {"DECIDED", "RETRIEVED"} =>
                   last.needs_retrieval /\ reads = {2}
            /\ (last.system_msg # NoSystemMsg \/ generates # {}) =>
                   last.phase \in {"SKIPPED", "RETRIEVED"}

\* C18 witness: a completed turn that went PENDING, DECIDED(true),
\* RETRIEVED with facts: decision call, index read, reply, save.
C18_Witness ==
    /\ Turned
    /\ last.failure = "none"
    /\ last.phase = "RETRIEVED"
    /\ last.context # <<>>
    /\ [n \in 1..3 |-> last.calls[n].api] =
           <<"llm.decide", "index.search", "llm.generate">>
    /\ last.calls[Len(last.calls)].api = "db.save"

----------------------------------------------------------------------------

\* C19: the index holds a fact of the sessions' user twice only if curation
\* runs of two sessions overlapped, one making its is_new_info checks before
\* the other's store: runs taken one after the other never store a fact
\* twice.  (That overlapping runs do store it twice is the witness.)
C19_DuplicateOnlyByOverlap ==
    (\E i, j \in 1..Len(index) :
        /\ i < j
        /\ index[i].user_id = SessionUser
        /\ index[j].user_id = SessionUser
        /\ index[i].page_content = index[j].page_content)
    => \A s \in Sessions : runs[s].raced

\* C19 witness: both sessions checked the same candidate fact and found it
\* new before either stored, and the index now holds it twice.
C19_Witness ==
    /\ \A s \in Sessions :
           /\ runs[s].pc = "done"
           /\ runs[s].extracted = <<FactName>>
           /\ runs[s].facts_to_add = << <<FactName>> >>
           /\ runs[s].raced
    /\ CountOf(index, SessionUser, <<FactName>>) = 2

----------------------------------------------------------------------------

\* The contents of the messages of msgs that have the given type, in order.
RECURSIVE ContentsOfType(_, _)
ContentsOfType(msgs, type) ==
    IF msgs = <<>> THEN <<>>
    ELSE (IF Head(msgs).type = type THEN <<Head(msgs).content>> ELSE <<>>)
         \o ContentsOfType(Tail(msgs), type)

\* C20: the text a curation run hands to the extraction call is the contents
\* of the HumanMessages of the session's history, in their order, and holds
\* no content of an assistant message; a run on an empty history makes no
\* gateway call and no index access.
C20_ExtractsUserMessagesOnly ==
    /\ Curated =>
           /\ last.extract_input = ContentsOfType(messages, "HumanMessage")
           /\ \A text \in Range(last.extract_input) :
                  text \notin Range(ContentsOfType(messages, "AIMessage"))
    /\ (last.op = "extract" /\ messages = <<>>) =>
           /\ last.calls = <<>>
           /\ last.extract_input = <<>>
           /\ last.toast = "No messages to extract"

\* C20 witness: a run over a history of two user messages around an
\* assistant reply handed exactly the two user messages to the extraction.
C20_Witness ==
    /\ Curated
    /\ Len(last.extract_input) = 2
    /\ Len(messages) > 2
    /\ \E n \in 1..Len(messages) : messages[n].type = "AIMessage"
    /\ "llm.extract" \in Apis(last.calls)

----------------------------------------------------------------------------

\* How many elements of seq satisfy equality with x.
Occurrences(seq, x) == Cardinality({ n \in 1..Len(seq) : seq[n] = x })

\* C21: a completed curation run makes one is_new_info read per line, all
\* of them before its single add_documents write, which is its last call;
\* every line is judged against the index as the run found it, so a line
\* that is new against it is written as many times as the output holds it,
\* and two lines within the threshold of each other are both written.
C21_BatchNotDeduplicated ==
    [][(last'.op = "extract" /\ last'.calls # <<>> /\ last'.failure = "none"
           /\ last'.facts.type = "list") =>
        LET lines == last'.facts.value
            reads == CallsTo(last'.calls, "index.search")
            adds == CallsTo(last'.calls, "index.add")
            texts == [n \in 1..Len(Appended) |-> Appended[n].page_content]
        IN  /\ Cardinality(reads) = Len(lines)
            /\ Cardinality(adds) <= 1
            /\ \A a \in adds :
                   a = Len(last'.calls) /\ \A r \in reads : r < a
            /\ \A n \in 1..Len(lines) :
                   Occurrences(texts, lines[n]) =
                       IF is_new_info(index, user, lines[n])
                       THEN Occurrences(lines, lines[n]) ELSE 0]_vars

\* C21 witness: a run whose output held the same new line twice wrote it
\* twice.
C21_Witness ==
    /\ Curated
    /\ last.failure = "none"
    /\ LastLines = << <<FactName>>, <<FactName>> >>
    /\ last.facts_to_add = LastLines
    /\ CountOf(index, last.user, <<FactName>>) = 2
    /\ last.calls[Len(last.calls)].api = "index.add"

----------------------------------------------------------------------------

\* The texts a user can have typed.
AuthoredBy(uid) == { Question(uid, n) : n \in 1..(MaxMsgs + 3) }

\* The contents of the user-authored messages of a list, stored or not.
HumanContents(msgs) ==
    { msgs[n].content : n \in { k \in 1..Len(msgs) :
                                  msgs[k].type = "HumanMessage" } }

\* C22: a logout leaves logged_in false and no history, conversation id or
\* user; a login starts with an empty history and no conversation; and
\* after every step the history on display and sent to the model holds only
\* what the logged-in user typed, as does the text handed to extraction, and
\* every conversation in the db holds only what its owner typed.
C22_LogoutDestroysSession ==
    [][/\ last'.op = "logout" =>
              /\ ~logged_in'
              /\ session_keys' = {}
              /\ messages' = <<>>
              /\ conversation_id' = None
              /\ user' = None
       /\ last'.op = "login" =>
              /\ logged_in' /\ user' \in Users
              /\ messages' = <<>>
              /\ conversation_id' = None
       /\ logged_in' =>
              /\ HumanContents(messages') \subseteq AuthoredBy(user')
              /\ conversation_id' # None =>
                     db'[conversation_id'].owner = user'
       /\ last'.op = "extract" =>
              Range(last'.extract_input) \subseteq AuthoredBy(user')
       /\ \A c \in DOMAIN db' :
              HumanContents(db'[c].messages) \subseteq AuthoredBy(db'[c].owner)
      ]_vars

\* C22 witness: after the first user's turn and logout, the second user
\* logged in and completed a turn of their own conversation.
C22_Witness ==
    /\ Turned
    /\ last.failure = "none"
    /\ \E u \in Users \ {user}, c \in DOMAIN db :
           /\ db[c].owner = u
           /\ Len(db[c].messages) > 2
    /\ conversation_id \in DOMAIN db
    /\ Len(db[conversation_id].messages) > 2
    /\ Len(messages) = Len(db[conversation_id].messages)

----------------------------------------------------------------------------

\* The step is a turn that ran to its end.
CompletedTurn == last'.op = "turn" /\ last'.failure = "none"

\* The conversation records the step created.
CreatedRecords == DOMAIN db' \ DOMAIN db

\* After a completed turn the session has a conversation id, its record
\* holds the session's history, and the history ends with the query and the
\* reply.
SavedAsHistory ==
    CompletedTurn =>
        /\ conversation_id' # None
        /\ conversation_id' \in DOMAIN db'
        /\ db'[conversation_id'].owner = user
        /\ [n \in 1..Len(db'[conversation_id'].messages) |->
               deserialize_message(db'[conversation_id'].messages[n])]
               = messages'
        /\ Len(messages') = Len(messages) + 2
        /\ SubSeq(messages', 1, Len(messages)) = messages
        /\ messages'[Len(messages') - 1] \in
               { HumanMessage(q) : q \in Queries(user, messages) }
        /\ messages'[Len(messages')] = AIMessage(Reply)

\* A turn of a session that has a conversation id creates no record and
\* keeps the id; a completed turn of a session without one creates one.
CreatedOnlyWithoutId ==
    /\ (last'.op = "turn" /\ conversation_id # None) =>
           CreatedRecords = {} /\ conversation_id' = conversation_id
    /\ (CompletedTurn /\ conversation_id = None) =>
           CreatedRecords = {conversation_id'}

====
